---- MODULE Spec2Model ----
(***************************************************************************)
(* A model of qtrio's core (src/qtrio/_core.py): the Outcomes aggregator   *)
(* and outcome_from_application_return_code, the emissions channel opened  *)
(* by open_emissions_channel, and the Runner that runs a Trio guest on a   *)
(* Qt host loop.                                                           *)
(*                                                                         *)
(* The specifications share the module, each leaving the variables of the *)
(* other parts untouched:                                                  *)
(*   SpecOutcomes    Outcomes.unwrap and the return code conversion, as    *)
(*                   functions applied to inputs drawn from bounded sets;  *)
(*   SpecEmissions   one open_emissions_channel subscription;              *)
(*   SpecWaitSignal  one call of wait_signal;                              *)
(*   SpecRunner      one Runner, from construction to the return of run(); *)
(*   SpecRunnerFair  the same on a host that keeps delivering events;      *)
(*   SpecReenter     one Runner with other callers of                      *)
(*                   run_sync_soon_threadsafe;                             *)
(*   SpecReuse       one Runner whose run() is called again.               *)
(***************************************************************************)
EXTENDS Integers, Sequences, FiniteSets, TLC

VARIABLES
    \* ---- Outcomes / Runner.outcomes
    outcomes,       \* the Outcomes value: [qt |-> Outcome or None, trio |-> ...]
    unwrapped,      \* what the last Outcomes.unwrap() call did, NoCall before
    unwrappedOf,    \* the Outcomes that call was made on
    return_code,    \* argument of the last outcome_from_application_return_code
    rc_outcome,     \* what that call returned
    rc_unwrapped,   \* what unwrapping that Outcome did, NoCall before
    \* ---- open_emissions_channel
    ephase,         \* "unopened" | "open" | "exiting" | "closed"
    connected,      \* signals whose handler is connected
    runq,           \* slot tasks spawned by nursery.start_soon, not yet run
    buffer,         \* the memory channel's buffer
    send_closed,    \* send_channel is closed
    recv_waiting,   \* a receive() is parked on the empty, open channel
    received,       \* what each receive() observed, in order
    dispatched,     \* the firings the host dispatched to a connected handler
    enqueued,       \* the Emissions the slot tasks put into the channel
    ecancelled,     \* the nursery's cancel scope is cancelled
    eerror,         \* the error raised out of the subscription, NoError if none
    \* ---- Runner
    cfg,            \* the Runner's attributes and run()'s arguments
    rpc,            \* where Runner.run is: "idle" | "exec" | "returned"
    run_result,     \* what Runner.run returned
    application,    \* the Qt application: existence, flags, loop state
    posted,         \* the host's queue of posted events
    io_thread,      \* the guest's I/O thread will post the next tick
    gpc,            \* where the guest run is
    cancel_scope,   \* trio_main's cancel scope
    lwc_connected,  \* lastWindowClosed is connected to cancel_scope.cancel
    entry_result,   \* the outcome of trio_main, None while it has not ended
    suspends,       \* ticks the entry function has stayed suspended
    log,            \* the calls the Runner made since run() was called
    runs,           \* how many times Runner.run was called
    sent,           \* every fn given to run_sync_soon_threadsafe, in order
    invoked,        \* every fn Reenter.event called, with what it returned
    \* ---- wait_signal
    wpc,            \* where the call is: "idle" | "waiting" | "woken" |
                    \* "returned" | "cancelled"
    wconnected,     \* slot is connected to the signal
    wevent,         \* the trio.Event is set
    wresult,        \* the nonlocal result: PyNone or the args slot stored
    wfired,         \* the firings of the signal, in order
    wreturned       \* what wait_signal returned, NoCall before

outcomeVars == <<outcomes, unwrapped, unwrappedOf, return_code, rc_outcome,
                 rc_unwrapped>>
emissionVars == <<ephase, connected, runq, buffer, send_closed, recv_waiting,
                  received, dispatched, enqueued, ecancelled, eerror>>
runnerVars == <<cfg, rpc, run_result, application, posted, io_thread, gpc,
                cancel_scope, lwc_connected, entry_result, suspends, log,
                runs, sent, invoked>>
waitVars == <<wpc, wconnected, wevent, wresult, wfired, wreturned>>
vars == <<outcomeVars, emissionVars, runnerVars, waitVars>>

----------------------------------------------------------------------------
(* Bounds of the model. *)

\* user values are PyInt(0) .. PyInt(MaxValue)
MaxValue == 1
\* return codes are -MaxCode .. MaxCode
MaxCode == 2
\* signal firings in one subscription
MaxFirings == 3
\* receive() calls in one subscription
MaxReceives == 3
\* times the last window of the application is closed
MaxWindowCloses == 1
\* guest ticks during which the entry function stays suspended
MaxSuspends == 2
\* calls of Runner.run on one Runner
MaxRuns == 2
\* calls of run_sync_soon_threadsafe made by code other than the guest run
MaxPosts == 2
\* firings of the signal given to wait_signal
MaxSignalFirings == 3

----------------------------------------------------------------------------
(* Python values, errors and the outcome library's Outcome. *)

PyNone == [t |-> "None", n |-> 0]
PyInt(n) == [t |-> "int", n |-> n]
UserValues == {PyInt(n) : n \in 0..MaxValue}

NoError == [name |-> "", code |-> 0]
UserErrors == {[name |-> "E1", code |-> 0], [name |-> "E2", code |-> 0]}
NoOutcomesError == [name |-> "NoOutcomesError", code |-> 0]
ReturnCodeError(n) == [name |-> "ReturnCodeError", code |-> n]
ReturnCodes == (0 - MaxCode)..MaxCode

\* Optional[outcome.Outcome]: None, outcome.Value(v) or outcome.Error(e)
None == [tag |-> "None", val |-> PyNone, err |-> NoError]
Value(v) == [tag |-> "Value", val |-> v, err |-> NoError]
Error(e) == [tag |-> "Error", val |-> PyNone, err |-> e]

\* what a call did: it returned a value or it raised an error
NoCall == [kind |-> "nocall", val |-> PyNone, err |-> NoError]
Return(v) == [kind |-> "return", val |-> v, err |-> NoError]
Raise(e) == [kind |-> "raise", val |-> PyNone, err |-> e]

\* outcome.Outcome.unwrap(): a Value returns its value, an Error raises
OutcomeUnwrap(oc) == IF oc.tag = "Value" THEN Return(oc.val) ELSE Raise(oc.err)

----------------------------------------------------------------------------
(* Outcomes and outcome_from_application_return_code.                      *)

EmptyOutcomes == [qt |-> None, trio |-> None]

\* Outcomes.unwrap with the two branches in the wrong order: the Qt outcome
\* is unwrapped before the Trio outcome.
unwrap_qt_first(o) ==
    IF o.qt # None
    THEN IF o.qt.tag = "Error" THEN Raise(o.qt.err)
         ELSE IF o.trio # None THEN OutcomeUnwrap(o.trio)
         ELSE OutcomeUnwrap(o.qt)
    ELSE IF o.trio # None THEN OutcomeUnwrap(o.trio)
    ELSE Raise(NoOutcomesError)

\* Outcomes.unwrap that forgets to consult the Qt outcome once Trio is set.
unwrap_ignores_qt(o) ==
    IF o.trio # None THEN OutcomeUnwrap(o.trio)
    ELSE IF o.qt # None THEN OutcomeUnwrap(o.qt)
    ELSE Raise(NoOutcomesError)

\* Outcomes.unwrap that only ever looks at the Trio outcome.
unwrap_trio_only(o) ==
    IF o.trio # None
    THEN IF o.trio.tag = "Error" THEN Raise(o.trio.err)
         ELSE IF o.qt # None /\ o.qt.tag = "Error" THEN Raise(o.qt.err)
         ELSE Return(o.trio.val)
    ELSE Raise(NoOutcomesError)

\* Outcomes.unwrap that returns None instead of raising NoOutcomesError.
unwrap_returns_none(o) ==
    IF o.trio # None
    THEN IF o.trio.tag = "Error" THEN Raise(o.trio.err)
         ELSE IF o.qt # None /\ o.qt.tag = "Error" THEN Raise(o.qt.err)
         ELSE Return(o.trio.val)
    ELSE IF o.qt # None THEN OutcomeUnwrap(o.qt)
    ELSE Return(PyNone)

\* Outcomes.unwrap
unwrap(o) ==
    IF o.trio # None
    THEN \* result = self.trio.unwrap() raises when Trio gave an error
         IF o.trio.tag = "Error" THEN Raise(o.trio.err)
         \* self.qt.unwrap() raises when Qt gave an error
         ELSE IF o.qt # None /\ o.qt.tag = "Error" THEN Raise(o.qt.err)
         ELSE Return(o.trio.val)
    ELSE IF o.qt # None THEN OutcomeUnwrap(o.qt)
    ELSE Raise(NoOutcomesError)

\* outcome_from_application_return_code that treats every code as a success.
return_code_always_value(n) == Value(PyInt(n))

\* outcome_from_application_return_code
outcome_from_application_return_code(n) ==
    IF n = 0 THEN Value(PyInt(n)) ELSE Error(ReturnCodeError(n))

\* the Outcome values the model draws inputs from
OutcomeInputs ==
    {None} \cup {Value(v) : v \in UserValues \cup {PyNone}}
           \cup {Error(e) : e \in UserErrors}
           \cup {outcome_from_application_return_code(n) : n \in ReturnCodes}

\* a caller calls outcomes.unwrap()
CallUnwrap ==
    /\ unwrapped' = unwrap(outcomes)
    /\ unwrappedOf' = outcomes
    /\ UNCHANGED <<outcomes, return_code, rc_outcome, rc_unwrapped>>

\* a caller calls outcome_from_application_return_code(n)
CallFromReturnCode ==
    \E n \in ReturnCodes :
        /\ return_code' = n
        /\ rc_outcome' = outcome_from_application_return_code(n)
        /\ rc_unwrapped' = NoCall
        /\ UNCHANGED <<outcomes, unwrapped, unwrappedOf>>

\* a caller unwraps the Outcome the last conversion returned
CallUnwrapReturnCode ==
    /\ rc_outcome # None
    /\ rc_unwrapped' = OutcomeUnwrap(rc_outcome)
    /\ UNCHANGED <<outcomes, unwrapped, unwrappedOf, return_code, rc_outcome>>

InitOutcomeCalls ==
    /\ unwrapped = NoCall
    /\ unwrappedOf = EmptyOutcomes
    /\ return_code = 0
    /\ rc_outcome = None
    /\ rc_unwrapped = NoCall

----------------------------------------------------------------------------
(* open_emissions_channel: the signals, the nursery of slot tasks and the  *)
(* memory channel.  The guest scheduler runs the tasks that are runnable   *)
(* in one batch, a batch either in the order the tasks were scheduled or   *)
(* in the reverse order (trio reverses a batch at random).                 *)

Signals == {"A", "B"}
ArgTuples == {<<1, 2>>}

\* Emission(signal, args); n numbers the firings, to tell A1 from A2
Emission(signal, args, n) == [signal |-> signal, args |-> args, n |-> n]
NoEmission == [signal |-> "", args |-> <<>>, n |-> 0]

ClosedResourceError == [name |-> "ClosedResourceError", code |-> 0]

\* what a receive() observed: a value, or EndOfChannel ("closed")
Got(em, after) == [kind |-> "value", em |-> em, after_close |-> after]
GotClosed(after) == [kind |-> "closed", em |-> NoEmission, after_close |-> after]

RECURSIVE Reverse(_)
Reverse(q) == IF q = <<>> THEN <<>> ELSE Append(Reverse(Tail(q)), Head(q))

\* The part of the state a slot task acts on.
ChannelState ==
    [buffer |-> buffer, recv_waiting |-> recv_waiting, received |-> received,
     enqueued |-> enqueued, ecancelled |-> ecancelled, eerror |-> eerror]

\* slot that enqueues the Emission without looking at the channel's state
slot_ignores_close(st, em) ==
    IF st.recv_waiting
    THEN [st EXCEPT !.recv_waiting = FALSE,
                    !.received = Append(@, Got(em, FALSE)),
                    !.enqueued = Append(@, em)]
    ELSE [st EXCEPT !.buffer = Append(@, em), !.enqueued = Append(@, em)]

\* slot(signal, *args): await send_channel.send(Emission(signal, args)).
\* send() is a checkpoint: in a cancelled nursery it raises Cancelled and
\* nothing is sent.  On a closed send channel it raises ClosedResourceError,
\* which the nursery answers by cancelling its scope and which is raised out
\* of the subscription.  Otherwise the Emission goes to the parked receiver,
\* if there is one, or to the (unbounded) buffer.
slot(st, em) ==
    IF st.ecancelled THEN st
    ELSE IF send_closed
    THEN [st EXCEPT !.ecancelled = TRUE,
                    !.eerror = IF @ = NoError THEN ClosedResourceError ELSE @]
    ELSE IF st.recv_waiting
    THEN [st EXCEPT !.recv_waiting = FALSE,
                    !.received = Append(@, Got(em, FALSE)),
                    !.enqueued = Append(@, em)]
    ELSE [st EXCEPT !.buffer = Append(@, em), !.enqueued = Append(@, em)]

\* one batch of the scheduler: every task of the batch runs, in its order
RECURSIVE RunBatch(_, _)
RunBatch(st, batch) ==
    IF batch = <<>> THEN st ELSE RunBatch(slot(st, Head(batch)), Tail(batch))

\* the orders in which the scheduler may run the batch q
batch_orders(q) == {q, Reverse(q)}

\* send_channel.close(): a parked receiver is woken with EndOfChannel
WakeReceiverClosed ==
    IF recv_waiting
    THEN /\ received' = Append(received, GotClosed(FALSE))
         /\ recv_waiting' = FALSE
    ELSE UNCHANGED <<received, recv_waiting>>

\* async with open_emissions_channel(signals) is entered: one handler is
\* connected per signal, and the body gets the Emissions
Open ==
    /\ ephase = "unopened"
    /\ \E signals \in (SUBSET Signals) \ {{}} :
        connected' = signals
    /\ ephase' = "open"
    /\ UNCHANGED <<runq, buffer, send_closed, recv_waiting, received,
                   dispatched, enqueued, ecancelled, eerror>>

\* the host dispatches a firing of signal with args: a connected handler
\* calls nursery.start_soon(slot, signal, *args); without a handler nothing
\* happens
Fire ==
    /\ ephase # "unopened"
    /\ Len(dispatched) < MaxFirings
    /\ \E signal \in Signals, args \in ArgTuples :
        LET em == Emission(signal, args, Len(dispatched) + 1) IN
        /\ dispatched' = Append(dispatched,
                [em |-> em, handled |-> signal \in connected,
                 open |-> ephase = "open" /\ ~send_closed])
        /\ runq' = IF signal \in connected THEN Append(runq, em) ELSE runq
    /\ UNCHANGED <<ephase, connected, buffer, send_closed, recv_waiting,
                   received, enqueued, ecancelled, eerror>>

\* the guest scheduler runs the batch of spawned slot tasks
SlotBatch ==
    /\ runq # <<>>
    /\ \E batch \in batch_orders(runq) :
        LET st == RunBatch(ChannelState, batch) IN
        /\ buffer' = st.buffer
        /\ recv_waiting' = st.recv_waiting
        /\ received' = st.received
        /\ enqueued' = st.enqueued
        /\ ecancelled' = st.ecancelled
        /\ eerror' = st.eerror
    /\ runq' = <<>>
    /\ UNCHANGED <<ephase, connected, send_closed, dispatched>>

\* the consumer calls emissions.channel.receive()
Receive ==
    /\ ephase # "unopened"
    /\ ~recv_waiting
    /\ Len(received) < MaxReceives
    /\ IF buffer # <<>>
       THEN /\ received' = Append(received, Got(Head(buffer), send_closed))
            /\ buffer' = Tail(buffer)
            /\ UNCHANGED recv_waiting
       ELSE IF send_closed
       THEN /\ received' = Append(received, GotClosed(TRUE))
            /\ UNCHANGED <<buffer, recv_waiting>>
       ELSE /\ recv_waiting' = TRUE
            /\ UNCHANGED <<buffer, received>>
    /\ UNCHANGED <<ephase, connected, runq, send_closed, dispatched, enqueued,
                   ecancelled, eerror>>

\* the body calls emissions.aclose(): send_channel.aclose()
Aclose ==
    /\ ephase = "open"
    /\ ~send_closed
    /\ send_closed' = TRUE
    /\ WakeReceiverClosed
    /\ UNCHANGED <<ephase, connected, runq, buffer, dispatched, enqueued,
                   ecancelled, eerror>>

\* a cancel scope around the subscription is cancelled
CancelSubscription ==
    /\ ephase = "open"
    /\ ~ecancelled
    /\ ecancelled' = TRUE
    /\ UNCHANGED <<ephase, connected, runq, buffer, send_closed, recv_waiting,
                   received, dispatched, enqueued, eerror>>

\* the body leaves the with block (by its end, or unwinding when cancelled):
\* the ExitStack disconnects every handler, then the nursery waits for its
\* slot tasks
ExitBegin ==
    /\ ephase = "open"
    /\ connected' = {}
    /\ ephase' = "exiting"
    /\ UNCHANGED <<runq, buffer, send_closed, recv_waiting, received,
                   dispatched, enqueued, ecancelled, eerror>>

\* the nursery has no task left: async with send_channel closes the channel
ExitFinish ==
    /\ ephase = "exiting"
    /\ runq = <<>>
    /\ ephase' = "closed"
    /\ send_closed' = TRUE
    /\ IF send_closed THEN UNCHANGED <<received, recv_waiting>>
       ELSE WakeReceiverClosed
    /\ UNCHANGED <<connected, runq, buffer, dispatched, enqueued, ecancelled,
                   eerror>>

InitEmissions ==
    /\ ephase = "unopened"
    /\ connected = {}
    /\ runq = <<>>
    /\ buffer = <<>>
    /\ send_closed = FALSE
    /\ recv_waiting = FALSE
    /\ received = <<>>
    /\ dispatched = <<>>
    /\ enqueued = <<>>
    /\ ecancelled = FALSE
    /\ eerror = NoError


----------------------------------------------------------------------------
(* wait_signal: one call, the signal it waits for, and the task's wake-up.  *)
(* event.set() makes the parked task runnable; the task runs again at the   *)
(* guest scheduler's next pass, and the signal may fire again before that.  *)

\* the argument tuples the signal is emitted with
SignalArgs == {<<1>>, <<2>>, <<1, 2>>}

\* a firing of the signal: its args, and whether slot was connected then
Firing(args, conn) == [args |-> args, connected |-> conn]

\* the value of a Python tuple of args
PyTuple(args) == [t |-> "tuple", n |-> 0, args |-> args]
PyNoneResult == [t |-> "None", n |-> 0, args |-> <<>>]

\* slot(*args): result = args (then event.set())
wait_signal_slot(result, args) == PyTuple(args)

\* wait_signal(signal) is called: the Event is created, result is None, slot
\* is connected, and event.wait() parks the task
WaitSignalCall ==
    /\ wpc = "idle"
    /\ wevent' = FALSE
    /\ wresult' = PyNoneResult
    /\ wconnected' = TRUE
    /\ wpc' = "waiting"
    /\ UNCHANGED <<wfired, wreturned>>

\* the host dispatches a firing of the signal: when slot is connected it
\* stores the args and sets the event, which makes a parked task runnable
SignalFire ==
    /\ Len(wfired) < MaxSignalFirings
    /\ \E args \in SignalArgs :
        /\ wfired' = Append(wfired, Firing(args, wconnected))
        /\ IF wconnected
           THEN /\ wresult' = wait_signal_slot(wresult, args)
                /\ wevent' = TRUE
                /\ wpc' = IF wpc = "waiting" THEN "woken" ELSE wpc
           ELSE UNCHANGED <<wresult, wevent, wpc>>
    /\ UNCHANGED <<wconnected, wreturned>>

\* the guest scheduler resumes the woken task: the with block is left, which
\* disconnects slot, and result is returned
WaitSignalResume ==
    /\ wpc = "woken"
    /\ wconnected' = FALSE
    /\ wreturned' = Return(wresult)
    /\ wpc' = "returned"
    /\ UNCHANGED <<wevent, wresult, wfired>>

\* the task is cancelled while parked in event.wait(): Cancelled is raised
\* through the with block, which disconnects slot
WaitSignalCancel ==
    /\ wpc = "waiting"
    /\ wconnected' = FALSE
    /\ wpc' = "cancelled"
    /\ UNCHANGED <<wevent, wresult, wfired, wreturned>>

InitWait ==
    /\ wpc = "idle"
    /\ wconnected = FALSE
    /\ wevent = FALSE
    /\ wresult = PyNoneResult
    /\ wfired = <<>>
    /\ wreturned = NoCall

----------------------------------------------------------------------------
(* Runner: the Qt host loop, the Trio guest run and the two outcomes.      *)
(*                                                                         *)
(* The host keeps a FIFO queue of posted events and delivers them one at a *)
(* time while its loop runs.  The guest runs one tick per delivered        *)
(* reenter event; after a tick that does not end the run, the next tick is *)
(* posted at once or, when no task is runnable, by the guest's I/O thread. *)

Configs ==
    [application : {"none", "quit_on_close", "keep_open"},
     quit_application : BOOLEAN,
     done_callback : BOOLEAN,
     execute_application : BOOLEAN]

\* what Runner.run returned: nothing yet, or an Outcomes
NotReturned == [kind |-> "nocall", outcomes |-> EmptyOutcomes]
Returned(o) == [kind |-> "return", outcomes |-> o]

\* the entry of the log for a call the Runner made
DoneCallbackCall(o) == [call |-> "done_callback", arg |-> o]
QuitCall == [call |-> "quit", arg |-> EmptyOutcomes]

\* run_sync_soon_threadsafe that puts its event at the front of the queue
run_sync_soon_front(queue, fn) == <<fn>> \o queue

\* Runner.run_sync_soon_threadsafe(fn): create_reenter_event(fn), postEvent
run_sync_soon_threadsafe(queue, fn) == Append(queue, fn)

\* the callables that code other than the guest run hands to
\* run_sync_soon_threadsafe
UserFns == {"f", "g"}

\* Reenter.event(event): event.fn() is called, and False is returned
Invocation(fn, result) == [fn |-> fn, result |-> result]
ReenterEvent(fn) == Invocation(fn, FALSE)

UserPosts == SelectSeq(sent, LAMBDA fn : fn \in UserFns)

\* Runner.run that enters exec_() whatever execute_application says
RunnerRun_always_executes ==
    /\ runs' = runs + 1
    /\ application' =
         [application EXCEPT
            !.exists = TRUE,
            !.quit_on_last_window_closed =
                IF application.exists THEN @ ELSE FALSE,
            !.loop = "running"]
    /\ gpc' = "started"
    /\ suspends' = 0
    /\ entry_result' = None
    /\ log' = <<>>
    /\ posted' = run_sync_soon_threadsafe(posted, "guest_tick")
    /\ sent' = Append(sent, "guest_tick")
    /\ rpc' = "exec"
    /\ UNCHANGED <<run_result, io_thread, cancel_scope, lwc_connected,
                   invoked, cfg, outcomeVars>>

\* Runner.run: nothing in it looks at whether it ran before.  The
\* application is created when none was given, the guest run is started
\* (which posts its first tick), and then either exec_() is entered or the
\* outcomes, as they are, are returned
RunnerRun ==
    /\ runs' = runs + 1
    /\ application' =
         [application EXCEPT
            !.exists = TRUE,
            !.quit_on_last_window_closed =
                IF application.exists THEN @ ELSE FALSE,
            !.loop = IF cfg.execute_application THEN "running" ELSE @]
    /\ gpc' = "started"
    /\ suspends' = 0
    /\ entry_result' = None
    /\ log' = <<>>
    /\ posted' = run_sync_soon_threadsafe(posted, "guest_tick")
    /\ sent' = Append(sent, "guest_tick")
    /\ IF cfg.execute_application
       THEN /\ rpc' = "exec"
            /\ UNCHANGED run_result
       ELSE /\ rpc' = "returned"
            /\ run_result' = Returned(outcomes)
    /\ UNCHANGED <<io_thread, cancel_scope, lwc_connected, invoked, cfg,
                   outcomeVars>>

\* the caller calls runner.run(async_fn) on the Runner it constructed
Run ==
    /\ rpc = "idle"
    /\ RunnerRun

\* the caller calls runner.run(async_fn) again, on a Runner whose guest run
\* has finished and whose run() has returned
RunAgain ==
    /\ rpc = "returned"
    /\ gpc = "done"
    /\ application.loop # "running"
    /\ runs < MaxRuns
    /\ RunnerRun

\* trio_done that asks the application to quit before it calls done_callback
trio_done_quits_first(run_outcome) ==
    LET o == [outcomes EXCEPT !.trio = run_outcome] IN
    /\ outcomes' = o
    /\ log' = log
              \o (IF cfg.quit_application THEN <<QuitCall>> ELSE <<>>)
              \o (IF cfg.done_callback THEN <<DoneCallbackCall(o)>> ELSE <<>>)
    /\ application' =
         [application EXCEPT
            !.exit_requested =
                IF cfg.quit_application /\ application.loop = "running"
                THEN TRUE ELSE @]

\* trio_done that hands done_callback the outcomes it had before
trio_done_drops_outcome(run_outcome) ==
    /\ outcomes' = outcomes
    /\ log' = log
              \o (IF cfg.done_callback
                  THEN <<DoneCallbackCall(outcomes)>> ELSE <<>>)
              \o (IF cfg.quit_application THEN <<QuitCall>> ELSE <<>>)
    /\ application' =
         [application EXCEPT
            !.exit_requested =
                IF cfg.quit_application /\ application.loop = "running"
                THEN TRUE ELSE @]

\* Runner.trio_done(run_outcome): the outcome is recorded, done_callback is
\* called with the outcomes, and the application is asked to quit.  quit()
\* tells a running loop to exit; without a running loop it does nothing.
\* What trio_done prints is no part of the state; done_callback is a
\* callback that returns.
trio_done(run_outcome) ==
    LET o == [outcomes EXCEPT !.trio = run_outcome] IN
    /\ outcomes' = o
    /\ log' = log
              \o (IF cfg.done_callback THEN <<DoneCallbackCall(o)>> ELSE <<>>)
              \o (IF cfg.quit_application THEN <<QuitCall>> ELSE <<>>)
    /\ application' =
         [application EXCEPT
            !.exit_requested =
                IF cfg.quit_application /\ application.loop = "running"
                THEN TRUE ELSE @]

\* how a step of the entry function may end it: it returns a value or it
\* raises; when the cancel scope is cancelled, Cancelled is raised at the
\* checkpoint, the scope absorbs it and trio_main returns None
EntryEnds ==
    {Value(v) : v \in UserValues} \cup {Error(e) : e \in UserErrors}
    \cup (IF cancel_scope = "cancelled" THEN {Value(PyNone)} ELSE {})

\* the next guest tick is scheduled: posted now, or left to the I/O thread
ScheduleTick(queue) ==
    \/ /\ posted' = run_sync_soon_threadsafe(queue, "guest_tick")
       /\ sent' = Append(sent, "guest_tick")
       /\ UNCHANGED io_thread
    \/ /\ posted' = queue
       /\ io_thread' = TRUE
       /\ UNCHANGED sent

\* a step of the entry function whose end leaves lastWindowClosed connected
EntryStep_keeps_connection(queue, connect) ==
    \/ /\ cancel_scope' # "cancelled"
       /\ suspends < MaxSuspends
       /\ suspends' = suspends + 1
       /\ gpc' = "entry"
       /\ lwc_connected' = connect
       /\ ScheduleTick(queue)
       /\ UNCHANGED entry_result
    \/ /\ \E oc \in EntryEnds : entry_result' = oc
       /\ gpc' = "finishing"
       /\ lwc_connected' = connect
       /\ posted' = run_sync_soon_threadsafe(queue, "guest_tick")
       /\ sent' = Append(sent, "guest_tick")
       /\ UNCHANGED <<suspends, io_thread>>

\* the entry function runs up to its next suspension, or to its end; at its
\* end trio_main's ExitStack releases the lastWindowClosed connection
EntryStep(queue, connect) ==
    \/ /\ cancel_scope' # "cancelled"
       /\ suspends < MaxSuspends
       /\ suspends' = suspends + 1
       /\ gpc' = "entry"
       /\ lwc_connected' = connect
       /\ ScheduleTick(queue)
       /\ UNCHANGED entry_result
    \/ /\ \E oc \in EntryEnds : entry_result' = oc
       /\ gpc' = "finishing"
       /\ lwc_connected' = FALSE
       /\ posted' = run_sync_soon_threadsafe(queue, "guest_tick")
       /\ sent' = Append(sent, "guest_tick")
       /\ UNCHANGED <<suspends, io_thread>>

\* one tick of the guest run, with the rest of the host's queue
guest_tick(queue) ==
    \/ \* trio_main is entered: the cancel scope is opened, lastWindowClosed is
       \* connected to its cancel() when the application quits on it, and
       \* the entry function is called
       /\ gpc = "started"
       /\ cancel_scope' = "open"
       /\ EntryStep(queue, application.quit_on_last_window_closed)
       /\ UNCHANGED <<application, log, outcomes>>
    \/ /\ gpc = "entry"
       /\ UNCHANGED cancel_scope
       /\ EntryStep(queue, lwc_connected)
       /\ UNCHANGED <<application, log, outcomes>>
    \/ \* the run is over: trio calls done_callback=self.trio_done
       /\ gpc = "finishing"
       /\ gpc' = "done"
       /\ trio_done(entry_result)
       /\ posted' = queue
       /\ UNCHANGED <<cancel_scope, lwc_connected, entry_result, suspends,
                      io_thread, sent>>

\* the host loop delivers the event at the head of its queue: a reenter
\* event goes to Reenter.event, which calls its fn; a Quit event ends the loop
HostDeliver ==
    /\ application.loop = "running"
    /\ ~application.exit_requested
    /\ posted # <<>>
    /\ \/ /\ Head(posted) = "guest_tick"
          /\ invoked' = Append(invoked, ReenterEvent(Head(posted)))
          /\ guest_tick(Tail(posted))
       \/ /\ Head(posted) \in UserFns
          /\ invoked' = Append(invoked, ReenterEvent(Head(posted)))
          /\ posted' = Tail(posted)
          /\ UNCHANGED <<application, gpc, cancel_scope, lwc_connected,
                         entry_result, suspends, io_thread, log, outcomes,
                         sent>>
       \/ /\ Head(posted) = "quit"
          /\ posted' = Tail(posted)
          /\ application' = [application EXCEPT !.exit_requested = TRUE]
          /\ UNCHANGED <<gpc, cancel_scope, lwc_connected, entry_result,
                         suspends, io_thread, log, outcomes, sent, invoked>>
    /\ UNCHANGED <<cfg, rpc, run_result, runs, unwrapped, unwrappedOf,
                   return_code, rc_outcome, rc_unwrapped>>

\* some thread calls runner.run_sync_soon_threadsafe(fn); the Runner has an
\* application once run() was called or when it was constructed with one
UserPost ==
    /\ application.exists
    /\ Len(UserPosts) < MaxPosts
    /\ \E fn \in UserFns :
        /\ posted' = run_sync_soon_threadsafe(posted, fn)
        /\ sent' = Append(sent, fn)
    /\ UNCHANGED <<cfg, rpc, run_result, application, io_thread, gpc,
                   cancel_scope, lwc_connected, entry_result, suspends, log,
                   runs, invoked, outcomeVars>>

\* the guest's I/O thread calls run_sync_soon_threadsafe(guest_tick)
ThreadPost ==
    /\ io_thread
    /\ io_thread' = FALSE
    /\ posted' = run_sync_soon_threadsafe(posted, "guest_tick")
    /\ sent' = Append(sent, "guest_tick")
    /\ UNCHANGED <<cfg, rpc, run_result, application, gpc, cancel_scope,
                   lwc_connected, entry_result, suspends, log, runs, invoked,
                   outcomeVars>>

\* the last window is closed while the loop runs: Qt emits lastWindowClosed,
\* which calls cancel_scope.cancel() while connected, and an application
\* that quits on the last window closed posts itself a Quit event
LastWindowClosed ==
    /\ application.loop = "running"
    /\ ~application.exit_requested
    /\ application.closes < MaxWindowCloses
    /\ application' = [application EXCEPT !.closes = @ + 1]
    /\ cancel_scope' = IF lwc_connected THEN "cancelled" ELSE cancel_scope
    /\ posted' = IF application.quit_on_last_window_closed
                 THEN Append(posted, "quit") ELSE posted
    /\ UNCHANGED <<cfg, rpc, run_result, io_thread, gpc, lwc_connected,
                   entry_result, suspends, log, runs, sent, invoked,
                   outcomeVars>>

\* exec_() returns to Runner.run with the loop's return code, which becomes
\* the qt outcome; run returns the outcomes.  The code is the host's to
\* choose: quit() asks for 0, application code calling exit(n) for n.
ExecReturn ==
    /\ rpc = "exec"
    /\ application.exit_requested
    /\ \E code \in ReturnCodes :
        LET o == [outcomes EXCEPT
                    !.qt = outcome_from_application_return_code(code)] IN
        /\ outcomes' = o
        /\ run_result' = Returned(o)
    /\ rpc' = "returned"
    /\ application' = [application EXCEPT !.loop = "ended",
                                          !.exit_requested = FALSE]
    /\ UNCHANGED <<cfg, posted, io_thread, gpc, cancel_scope, lwc_connected,
                   entry_result, suspends, log, runs, sent, invoked,
                   unwrapped, unwrappedOf, return_code, rc_outcome,
                   rc_unwrapped>>

\* after run(execute_application=False) the caller runs the host loop itself
CallerExec ==
    /\ rpc = "returned"
    /\ ~cfg.execute_application
    /\ application.loop = "none"
    /\ application' = [application EXCEPT !.loop = "running"]
    /\ UNCHANGED <<cfg, rpc, run_result, posted, io_thread, gpc, cancel_scope,
                   lwc_connected, entry_result, suspends, log, runs, sent,
                   invoked, outcomeVars>>

\* and that loop returns to the caller
CallerExecReturn ==
    /\ rpc = "returned"
    /\ ~cfg.execute_application
    /\ application.loop = "running"
    /\ application.exit_requested
    /\ application' = [application EXCEPT !.loop = "ended",
                                          !.exit_requested = FALSE]
    /\ UNCHANGED <<cfg, rpc, run_result, posted, io_thread, gpc, cancel_scope,
                   lwc_connected, entry_result, suspends, log, runs, sent,
                   invoked, outcomeVars>>

\* the caller unwraps the Runner's outcomes
RunnerUnwrap ==
    /\ CallUnwrap
    /\ UNCHANGED runnerVars

InitRunner ==
    /\ cfg \in Configs
    /\ rpc = "idle"
    /\ run_result = NotReturned
    /\ application =
         [exists |-> cfg.application # "none",
          quit_on_last_window_closed |-> cfg.application = "quit_on_close",
          loop |-> "none", exit_requested |-> FALSE, closes |-> 0]
    /\ posted = <<>>
    /\ io_thread = FALSE
    /\ gpc = "unstarted"
    /\ cancel_scope = "none"
    /\ lwc_connected = FALSE
    /\ entry_result = None
    /\ suspends = 0
    /\ log = <<>>
    /\ runs = 0
    /\ sent = <<>>
    /\ invoked = <<>>


----------------------------------------------------------------------------
(* The specifications. *)

\* Outcomes.unwrap and outcome_from_application_return_code on every input
InitOutcomes ==
    /\ outcomes \in [qt : OutcomeInputs, trio : OutcomeInputs]
    /\ InitOutcomeCalls
    /\ InitEmissions
    /\ InitWait
    /\ cfg = [application |-> "none", quit_application |-> TRUE,
              done_callback |-> FALSE, execute_application |-> TRUE]
    /\ rpc = "idle"
    /\ run_result = NotReturned
    /\ application =
         [exists |-> FALSE, quit_on_last_window_closed |-> FALSE,
          loop |-> "none", exit_requested |-> FALSE, closes |-> 0]
    /\ posted = <<>>
    /\ io_thread = FALSE
    /\ gpc = "unstarted"
    /\ cancel_scope = "none"
    /\ lwc_connected = FALSE
    /\ entry_result = None
    /\ suspends = 0
    /\ log = <<>>
    /\ runs = 0
    /\ sent = <<>>
    /\ invoked = <<>>

NextOutcomes ==
    \/ CallUnwrap /\ UNCHANGED <<emissionVars, runnerVars, waitVars>>
    \/ CallFromReturnCode /\ UNCHANGED <<emissionVars, runnerVars, waitVars>>
    \/ CallUnwrapReturnCode /\ UNCHANGED <<emissionVars, runnerVars, waitVars>>

SpecOutcomes == InitOutcomes /\ [][NextOutcomes]_vars

\* one subscription opened by open_emissions_channel
InitSubscription ==
    /\ InitEmissions
    /\ InitWait
    /\ outcomes = EmptyOutcomes
    /\ InitOutcomeCalls
    /\ cfg = [application |-> "none", quit_application |-> TRUE,
              done_callback |-> FALSE, execute_application |-> TRUE]
    /\ rpc = "idle"
    /\ run_result = NotReturned
    /\ application =
         [exists |-> FALSE, quit_on_last_window_closed |-> FALSE,
          loop |-> "none", exit_requested |-> FALSE, closes |-> 0]
    /\ posted = <<>>
    /\ io_thread = FALSE
    /\ gpc = "unstarted"
    /\ cancel_scope = "none"
    /\ lwc_connected = FALSE
    /\ entry_result = None
    /\ suspends = 0
    /\ log = <<>>
    /\ runs = 0
    /\ sent = <<>>
    /\ invoked = <<>>

NextSubscription ==
    \/ Open /\ UNCHANGED <<outcomeVars, runnerVars, waitVars>>
    \/ Fire /\ UNCHANGED <<outcomeVars, runnerVars, waitVars>>
    \/ SlotBatch /\ UNCHANGED <<outcomeVars, runnerVars, waitVars>>
    \/ Receive /\ UNCHANGED <<outcomeVars, runnerVars, waitVars>>
    \/ Aclose /\ UNCHANGED <<outcomeVars, runnerVars, waitVars>>
    \/ CancelSubscription /\ UNCHANGED <<outcomeVars, runnerVars, waitVars>>
    \/ ExitBegin /\ UNCHANGED <<outcomeVars, runnerVars, waitVars>>
    \/ ExitFinish /\ UNCHANGED <<outcomeVars, runnerVars, waitVars>>

SpecEmissions == InitSubscription /\ [][NextSubscription]_vars

\* one call of wait_signal
InitWaitSignal ==
    /\ InitWait
    /\ InitEmissions
    /\ outcomes = EmptyOutcomes
    /\ InitOutcomeCalls
    /\ cfg = [application |-> "none", quit_application |-> TRUE,
              done_callback |-> FALSE, execute_application |-> TRUE]
    /\ rpc = "idle"
    /\ run_result = NotReturned
    /\ application =
         [exists |-> FALSE, quit_on_last_window_closed |-> FALSE,
          loop |-> "none", exit_requested |-> FALSE, closes |-> 0]
    /\ posted = <<>>
    /\ io_thread = FALSE
    /\ gpc = "unstarted"
    /\ cancel_scope = "none"
    /\ lwc_connected = FALSE
    /\ entry_result = None
    /\ suspends = 0
    /\ log = <<>>
    /\ runs = 0
    /\ sent = <<>>
    /\ invoked = <<>>

NextWaitSignal ==
    \/ WaitSignalCall /\ UNCHANGED <<outcomeVars, emissionVars, runnerVars>>
    \/ SignalFire /\ UNCHANGED <<outcomeVars, emissionVars, runnerVars>>
    \/ WaitSignalResume /\ UNCHANGED <<outcomeVars, emissionVars, runnerVars>>
    \/ WaitSignalCancel /\ UNCHANGED <<outcomeVars, emissionVars, runnerVars>>

SpecWaitSignal == InitWaitSignal /\ [][NextWaitSignal]_vars

\* one Runner
InitRun ==
    /\ InitRunner
    /\ outcomes = EmptyOutcomes
    /\ InitOutcomeCalls
    /\ InitEmissions
    /\ InitWait

NextRun ==
    \/ Run /\ UNCHANGED <<emissionVars, waitVars>>
    \/ HostDeliver /\ UNCHANGED <<emissionVars, waitVars>>
    \/ ThreadPost /\ UNCHANGED <<emissionVars, waitVars>>
    \/ LastWindowClosed /\ UNCHANGED <<emissionVars, waitVars>>
    \/ ExecReturn /\ UNCHANGED <<emissionVars, waitVars>>
    \/ CallerExec /\ UNCHANGED <<emissionVars, waitVars>>
    \/ CallerExecReturn /\ UNCHANGED <<emissionVars, waitVars>>
    \/ RunnerUnwrap /\ UNCHANGED <<emissionVars, waitVars>>

SpecRunner == InitRun /\ [][NextRun]_vars

\* one Runner on a host that keeps working: the loop delivers the event at
\* the head of its queue, the guest's I/O thread posts the tick it owes, and
\* exec_() returns once the loop was told to exit
SpecRunnerFair ==
    /\ SpecRunner
    /\ WF_vars(HostDeliver /\ UNCHANGED <<emissionVars, waitVars>>)
    /\ WF_vars(ThreadPost /\ UNCHANGED <<emissionVars, waitVars>>)
    /\ WF_vars(ExecReturn /\ UNCHANGED <<emissionVars, waitVars>>)

\* one Runner, with other code and threads calling run_sync_soon_threadsafe
NextReenter ==
    \/ Run /\ UNCHANGED <<emissionVars, waitVars>>
    \/ UserPost /\ UNCHANGED <<emissionVars, waitVars>>
    \/ HostDeliver /\ UNCHANGED <<emissionVars, waitVars>>
    \/ ThreadPost /\ UNCHANGED <<emissionVars, waitVars>>
    \/ LastWindowClosed /\ UNCHANGED <<emissionVars, waitVars>>
    \/ ExecReturn /\ UNCHANGED <<emissionVars, waitVars>>
    \/ CallerExec /\ UNCHANGED <<emissionVars, waitVars>>
    \/ CallerExecReturn /\ UNCHANGED <<emissionVars, waitVars>>

\* the Runner's done_callback and quit_application have no part in posting
\* and delivering reenter events: they keep their defaults
InitReenter ==
    /\ InitRun
    /\ ~cfg.done_callback
    /\ cfg.quit_application

SpecReenter == InitReenter /\ [][NextReenter]_vars

\* one Runner whose caller calls run() again after a run has finished
NextReuse ==
    \/ Run /\ UNCHANGED <<emissionVars, waitVars>>
    \/ RunAgain /\ UNCHANGED <<emissionVars, waitVars>>
    \/ HostDeliver /\ UNCHANGED <<emissionVars, waitVars>>
    \/ ThreadPost /\ UNCHANGED <<emissionVars, waitVars>>
    \/ ExecReturn /\ UNCHANGED <<emissionVars, waitVars>>
    \/ CallerExec /\ UNCHANGED <<emissionVars, waitVars>>
    \/ CallerExecReturn /\ UNCHANGED <<emissionVars, waitVars>>

SpecReuse == InitRun /\ [][NextReuse]_vars

----------------------------------------------------------------------------
(* Outcomes.unwrap and outcome_from_application_return_code, checked under *)
(* SpecOutcomes (C4 under SpecRunner).                                     *)

\* C1: when the trio result is a failure e1 and the qt result a failure e2
\* different from e1, unwrap() raises e1.
C1_TrioFailureBeforeQtFailure ==
    (/\ unwrapped # NoCall
     /\ unwrappedOf.trio.tag = "Error"
     /\ unwrappedOf.qt.tag = "Error"
     /\ unwrappedOf.trio.err # unwrappedOf.qt.err)
    => /\ unwrapped = Raise(unwrappedOf.trio.err)
       /\ unwrapped # Raise(unwrappedOf.qt.err)

C1_Witness ==
    /\ unwrappedOf.trio = Error([name |-> "E1", code |-> 0])
    /\ unwrappedOf.qt = Error(ReturnCodeError(2))
    /\ unwrapped = Raise([name |-> "E1", code |-> 0])

\* C2: when the trio result is a success and the qt result a failure e,
\* unwrap() raises e and does not return the trio value.
C2_QtFailureBeforeTrioValue ==
    (/\ unwrapped # NoCall
     /\ unwrappedOf.trio.tag = "Value"
     /\ unwrappedOf.qt.tag = "Error")
    => unwrapped = Raise(unwrappedOf.qt.err)

C2_Witness ==
    /\ unwrappedOf.trio = Value(PyInt(1))
    /\ unwrappedOf.qt = Error(ReturnCodeError(1))
    /\ unwrapped = Raise(ReturnCodeError(1))

\* C3: when exactly one of the two results is set, unwrap() returns its
\* value if it is a success and raises its failure if it is a failure.
C3_OnlyOneSet ==
    /\ (/\ unwrapped # NoCall
        /\ unwrappedOf.trio # None
        /\ unwrappedOf.qt = None)
       => unwrapped = (IF unwrappedOf.trio.tag = "Value"
                       THEN Return(unwrappedOf.trio.val)
                       ELSE Raise(unwrappedOf.trio.err))
    /\ (/\ unwrapped # NoCall
        /\ unwrappedOf.trio = None
        /\ unwrappedOf.qt # None)
       => unwrapped = (IF unwrappedOf.qt.tag = "Value"
                       THEN Return(unwrappedOf.qt.val)
                       ELSE Raise(unwrappedOf.qt.err))

C3_Witness ==
    /\ unwrappedOf.trio = None
    /\ unwrappedOf.qt = Error(ReturnCodeError(1))
    /\ unwrapped = Raise(ReturnCodeError(1))

\* neither trio_done nor the return of exec_() has happened on the Runner
NeitherHappened ==
    /\ runs <= 1
    /\ gpc # "done"
    /\ ~(rpc = "returned" /\ cfg.execute_application)

\* C4: with both results unset unwrap() raises NoOutcomesError, and both
\* are unset on a Runner on which neither trio_done nor the return of the
\* host loop has happened.
C4_NoOutcomesError ==
    /\ (unwrapped # NoCall /\ unwrappedOf = EmptyOutcomes)
       => unwrapped = Raise(NoOutcomesError)
    /\ NeitherHappened => outcomes = EmptyOutcomes

C4_Witness ==
    /\ gpc = "entry"
    /\ rpc = "exec"
    /\ unwrappedOf = EmptyOutcomes
    /\ unwrapped = Raise(NoOutcomesError)

\* C5: outcome_from_application_return_code(0) is a success that unwraps to
\* 0, and for n # 0 it is a failure that unwraps by raising a
\* ReturnCodeError carrying n.
C5_ReturnCodeRoundTrip ==
    rc_outcome # None =>
        IF return_code = 0
        THEN /\ rc_outcome.tag = "Value"
             /\ rc_unwrapped # NoCall => rc_unwrapped = Return(PyInt(0))
        ELSE /\ rc_outcome.tag = "Error"
             /\ rc_unwrapped # NoCall
                => rc_unwrapped = Raise(ReturnCodeError(return_code))

C5_Witness ==
    /\ return_code = 0 - 2
    /\ rc_unwrapped = Raise(ReturnCodeError(0 - 2))

----------------------------------------------------------------------------
(* The emissions channel, checked under SpecEmissions.                     *)

\* the Emissions the receives returned, in the order of the receives
RECURSIVE ReceivedEmissions(_)
ReceivedEmissions(r) ==
    IF r = <<>> THEN <<>>
    ELSE IF Head(r).kind = "value"
         THEN <<Head(r).em>> \o ReceivedEmissions(Tail(r))
         ELSE ReceivedEmissions(Tail(r))

\* how many times em occurs in the sequence q
RECURSIVE Count(_, _)
Count(q, em) ==
    IF q = <<>> THEN 0
    ELSE (IF Head(q) = em THEN 1 ELSE 0) + Count(Tail(q), em)

\* C6: the Emissions received from the channel are in the order in which
\* the host dispatched the firings, each attributed to its own signal.
C6_ReceivedInDispatchOrder ==
    LET r == ReceivedEmissions(received) IN
    /\ \A i \in 1..Len(r) : r[i] = dispatched[r[i].n].em
    /\ \A i, j \in 1..Len(r) : i < j => r[i].n < r[j].n

\* C7: every firing dispatched to a connected handler while the
\* subscription is open puts exactly one Emission into the channel, also
\* when its enqueue task had not run yet at some later event.
C7_NoEmissionDropped ==
    \A k \in 1..Len(dispatched) :
        (dispatched[k].handled /\ dispatched[k].open)
        => \/ Count(runq, dispatched[k].em) = 1
              /\ Count(enqueued, dispatched[k].em) = 0
           \/ Count(runq, dispatched[k].em) = 0
              /\ Count(enqueued, dispatched[k].em) = 1

\* the receives attempted after the close, in order
ReceivesAfterClose == SelectSeq(received, LAMBDA r : r.after_close)

\* the scenario of C8: one firing, with args (1,2), dispatched to the
\* connected handler while the subscription was open, the subscription
\* closed after it, and then a receive attempted
OneFiringThenClosed ==
    /\ Len(dispatched) = 1
    /\ dispatched[1].handled
    /\ dispatched[1].open
    /\ dispatched[1].em.args = <<1, 2>>
    /\ send_closed
    /\ Len(ReceivesAfterClose) >= 1

----------------------------------------------------------------------------
(* The Runner, checked under SpecRunner.                                   *)

DoneCallbackCalls == SelectSeq(log, LAMBDA c : c.call = "done_callback")

C11_ExecReturnsAfterTrioDone ==
    /\ (rpc = "returned" /\ cfg.execute_application)
       => /\ gpc = "done"
          /\ outcomes.trio # None
          /\ \E i \in 1..Len(log) : log[i] = QuitCall
    /\ outcomes.qt # None => outcomes.trio # None

\* run() was called with execute_application and quit_application left at
\* their defaults
DefaultRun ==
    /\ cfg.execute_application
    /\ cfg.quit_application
    /\ rpc # "idle"

BothSet(o) == o.trio # None /\ o.qt # None

\* C13: with execute_application=True and quit_application=True, on a host
\* that keeps delivering posted events, run() eventually returns, and the
\* Outcomes it returns has both the trio and the qt result set.
C13_RunEventuallyReturnsBoth ==
    /\ DefaultRun ~> (rpc = "returned")
    /\ [](DefaultRun /\ rpc = "returned" => BothSet(run_result.outcomes))

----------------------------------------------------------------------------
(* A Runner whose run() is called again, checked under SpecReuse.          *)

\* C12: a Runner is single-shot: once its guest run has finished and run()
\* has returned, a further call of run() is rejected: no step starts a
\* second guest run or changes the recorded Outcomes.
C12_SecondRunRejected ==
    [][(rpc = "returned" /\ gpc = "done")
       => (gpc' = "done" /\ outcomes' = outcomes)]_vars

\* C14: a call of Runner.run with execute_application=False starts the guest
\* run (its first tick is posted), does not enter exec_(), and returns at
\* once an Outcomes with both results unset; no guest step, hence no
\* trio_done, runs before that return; and the qt result stays unset while
\* the caller drives the host loop itself.
C14_NoExecReturnsEmpty ==
    /\ [][(~cfg.execute_application /\ runs' # runs)
          => /\ rpc' = "returned"
             /\ gpc' = "started"
             /\ posted' = Append(posted, "guest_tick")
             /\ invoked' = invoked
             /\ outcomes' = outcomes
             /\ application'.loop = application.loop
             /\ run_result' = Returned(EmptyOutcomes)]_vars
    /\ [](~cfg.execute_application => (rpc # "exec" /\ outcomes.qt = None))

C14_Witness ==
    /\ ~cfg.execute_application
    /\ rpc = "returned"
    /\ run_result = Returned(EmptyOutcomes)
    /\ application.loop = "running"
    /\ gpc = "done"
    /\ outcomes.trio # None
    /\ outcomes.qt = None

\* trio_main has finished: the entry function ended and the with blocks
\* were left
TrioMainFinished == gpc \in {"finishing", "done"}

\* C18: trio_main connects lastWindowClosed to cancel_scope.cancel only when
\* the application has quitOnLastWindowClosed enabled, has made the
\* connection before the entry function runs, and releases it however the
\* entry function ends; after trio_main finished, a firing of
\* lastWindowClosed no longer cancels the scope.
C18_ConnectionScopedToEntry ==
    /\ [](lwc_connected => application.quit_on_last_window_closed)
    /\ [](gpc = "entry"
          => lwc_connected = application.quit_on_last_window_closed)
    /\ [](TrioMainFinished => ~lwc_connected)
    /\ [][TrioMainFinished => cancel_scope' = cancel_scope]_vars
    /\ [][(cancel_scope' = "cancelled" /\ cancel_scope # "cancelled")
          => (gpc = "entry" /\ application.quit_on_last_window_closed
              /\ application'.closes = application.closes + 1)]_vars

C18_Witness ==
    /\ application.quit_on_last_window_closed
    /\ gpc = "finishing"
    /\ entry_result.tag = "Error"
    /\ posted = <<"guest_tick", "quit">>
    /\ application.closes = 1
    /\ cancel_scope = "open"

\* C20: during the lifetime of one Runner both results start unset and each
\* is set at most once, the trio result only by trio_done and the qt result
\* only by the return of exec_() in Runner.run; recording one leaves the
\* other as it was, and a result once set is never cleared or replaced.
C20_EachResultSetOnce ==
    /\ [](runs = 0 => outcomes = EmptyOutcomes)
    /\ [][outcomes.trio # None => outcomes'.trio = outcomes.trio]_vars
    /\ [][outcomes.qt # None => outcomes'.qt = outcomes.qt]_vars
    /\ [][outcomes'.trio # outcomes.trio
          => /\ gpc = "finishing" /\ gpc' = "done"
             /\ outcomes'.trio = entry_result
             /\ outcomes'.qt = outcomes.qt]_vars
    /\ [][outcomes'.qt # outcomes.qt
          => /\ rpc = "exec" /\ rpc' = "returned"
             /\ outcomes'.trio = outcomes.trio]_vars

----------------------------------------------------------------------------
(* The reenter events, checked under SpecReenter.                          *)

\* the reenter events waiting in the host's queue
ReenterEventsPosted == SelectSeq(posted, LAMBDA e : e # "quit")

\* C15: every fn given to run_sync_soon_threadsafe, by any caller at any
\* time, is invoked by Reenter.event when the host delivers its event, and
\* only then: the invocations are the posts in post order, each fn is either
\* invoked once or still waiting in the host's queue, the call that posts fn
\* does not invoke it, and Reenter.event returns False each time.
C15_InvokedOnceInPostOrder ==
    /\ [](/\ Len(invoked) <= Len(sent)
          /\ \A i \in 1..Len(invoked) : invoked[i] = Invocation(sent[i], FALSE)
          /\ ReenterEventsPosted = SubSeq(sent, Len(invoked) + 1, Len(sent)))
    /\ [][Len(invoked') <= Len(sent)]_vars
    /\ [][Len(invoked') <= Len(invoked) + 1]_vars

C15_Witness ==
    /\ Len(invoked) >= 3
    /\ Len(sent) > Len(invoked)
    /\ \E i \in 1..Len(invoked) : \E j \in (i + 1)..Len(invoked) :
         /\ invoked[i] = Invocation("f", FALSE)
         /\ invoked[j] = Invocation("g", FALSE)
         /\ \E k \in (i + 1)..(j - 1) : invoked[k].fn = "guest_tick"

----------------------------------------------------------------------------
(* Closing the emissions channel, checked under SpecEmissions.             *)

\* a slot task tried to send into the closed channel
EnqueueIntoClosed == eerror = ClosedResourceError

\* the scope's exit closes the send side only with every handler disconnected
\* and no slot task left
ExitDisconnectsBeforeClose ==
    [][(ephase' = "closed" /\ ephase # "closed")
       => (connected = {} /\ runq = <<>> /\ send_closed')]_vars

\* a receive() parked when the send side is closed is woken with 'closed'
CloseWakesReader ==
    [][(recv_waiting /\ send_closed' /\ ~send_closed)
       => (~recv_waiting' /\ received' = Append(received, GotClosed(FALSE)))]_vars

\* C16: when the open_emissions_channel scope is left, every handler is
\* disconnected before the send side is closed, so that no handler ever tries
\* to enqueue into an already closed stream, and a reader parked in receive()
\* at the close is woken with 'closed'.
C16_DisconnectBeforeClose ==
    /\ ExitDisconnectsBeforeClose
    /\ [](send_closed => connected = {})
    /\ [](~EnqueueIntoClosed)
    /\ CloseWakesReader
    /\ [](send_closed => ~recv_waiting)

\* every firing handled while the channel was open has been enqueued, so that
\* a ClosedResourceError can only come from a firing after the close
ErrorFromLaterFiring ==
    /\ eerror = ClosedResourceError
    /\ \A i \in 1..Len(dispatched) :
         (dispatched[i].handled /\ dispatched[i].open)
         => Count(enqueued, dispatched[i].em) = 1

\* with the send side closed, a receive() takes the head of what is queued,
\* and reports 'closed' when nothing is queued
ClosedStreamDrains ==
    [][(send_closed /\ received' # received)
       => IF buffer # <<>>
          THEN /\ received' = Append(received, Got(Head(buffer), TRUE))
               /\ buffer' = Tail(buffer)
          ELSE /\ received' = Append(received, GotClosed(TRUE))
               /\ buffer' = buffer]_vars

\* C17: once the stream is closed, by Emissions.aclose or by the scope's
\* exit, no later firing adds an Emission to it and no error results from a
\* later firing; what was queued before stays receivable in order until
\* drained, and every receive after that reports 'closed'.
C17_ClosedStreamAcceptsNothing ==
    /\ [][send_closed => (enqueued' = enqueued /\ Len(buffer') <= Len(buffer))]_vars
    /\ [](~ErrorFromLaterFiring)
    /\ ClosedStreamDrains

----------------------------------------------------------------------------
(* wait_signal, checked under SpecWaitSignal.                              *)

\* the firings that happened while slot was connected
ConnectedFirings == SelectSeq(wfired, LAMBDA f : f.connected)

\* C19: wait_signal connects one handler, waits for one firing and returns
\* the args of the first firing after the handler was connected, also when
\* the signal fires again before the waiting task is resumed; the handler
\* is disconnected when wait_signal returns or is cancelled.
C19_ReturnsFirstFiring ==
    /\ wpc = "returned"
       => /\ ConnectedFirings # <<>>
          /\ wreturned = Return(PyTuple(ConnectedFirings[1].args))
    /\ wpc \in {"returned", "cancelled"} => ~wconnected
    /\ wpc \in {"waiting", "woken"} => wconnected
    /\ wpc = "waiting" => ConnectedFirings = <<>>

====
